---- MODULE Spec2Model ----
(***************************************************************************)
(* Software IEEE 754 binary64 arithmetic of src/main.rs (struct Float).     *)
(*                                                                         *)
(* A machine word (u64, u128) is modelled as the set of the positions of   *)
(* its one bits: bit 63 of a Float is its sign, bits 52..62 its biased     *)
(* exponent, bits 0..51 its mantissa.  The i16 working exponent and the    *)
(* u32 shift counts are small enough to be plain integers; they are        *)
(* wrapped to their width where the code computes them.                    *)
(***************************************************************************)
EXTENDS Integers, FiniteSets, Sequences, TLC

VARIABLES a, b, parts, pc, result, panicked

vars == <<a, b, parts, pc, result, panicked>>

(***************************************************************************)
(* Words as sets of bit positions.                                         *)
(***************************************************************************)
Min(S) == CHOOSE x \in S : \A y \in S : x <= y

Max(S) == 0 - Min({0 - x : x \in S})

RECURSIVE Val(_)
\* the number a small word (below 2^31) stands for
Val(S) == IF S = {} THEN 0 ELSE LET m == Min(S) IN 2^m + Val(S \ {m})

\* the word of a number 0 <= n < 2^14
BitsOf(n) == {i \in 0..13 : (n \div 2^i) % 2 = 1}

\* w >> k
Shr(w, k) == {i - k : i \in {j \in w : j >= k}}

\* w << k in a register of the given width (bits shifted out are lost)
Shl(w, k, width) == {i + k : i \in w} \cap (0..(width - 1))

\* (1 << k) - 1
LowMask(k) == 0..(k - 1)

\* unsigned v < w
Lt(v, w) == v # w /\ Max((v \ w) \cup (w \ v)) \in w

\* w + 1 in a register of the given width (wrapping)
Inc(w, width) ==
    IF (0..(width - 1)) \subseteq w THEN {}
    ELSE LET k == Min((0..(width - 1)) \ w) IN (w \ (0..k)) \cup {k}

\* u128::leading_zeros
leading_zeros(w) == IF w = {} THEN 128 ELSE 127 - Max(w)

\* the k-th 14-bit limb of a word
Limb(w, k) == Val({i - 14 * k : i \in w \cap ((14 * k)..(14 * k + 13))})

RECURSIVE MulCols(_, _, _, _)
\* schoolbook columns k.. of the product of two 5-limb numbers, with carry in
MulCols(la, lb, k, carry) ==
    IF k > 9 THEN {}
    ELSE LET term(i) == IF (k - i) \in 0..4 THEN la[i] * lb[k - i] ELSE 0
             t == term(0) + term(1) + term(2) + term(3) + term(4) + carry
         IN  {14 * k + i : i \in BitsOf(t % 16384)}
                 \cup MulCols(la, lb, k + 1, t \div 16384)

\* u128::from(v) * u128::from(w): the exact product of two u64 words
MulU64(v, w) ==
    MulCols([i \in 0..4 |-> Limb(v, i)], [i \in 0..4 |-> Limb(w, i)], 0, 0)

\* wrapping to i16
I16(x) == ((x + 32768) % 65536) - 32768

InI16(x) == x >= -32768 /\ x <= 32767

(***************************************************************************)
(* Sign, exponent, mantissa of a bit pattern, and back.                    *)
(***************************************************************************)
\* (bits >> 52) & ((1 << 11) - 1)
exp_bits(bits) == Val(Shr(bits, 52) \cap LowMask(11))

get_sign(bits) == 0 \in (Shr(bits, 63) \cap {0})

get_exponent(bits) == I16(exp_bits(bits) - 1023)

get_mantissa(bits) == bits \cap LowMask(52)

\* negate: bits ^= 1 << 63
negate(bits) == (bits \ {63}) \cup ({63} \ bits)

\* from_parts keeping only 10 bits of the biased exponent
from_parts_mask10(sign, exponent, mantissa) ==
    (IF sign THEN {63} ELSE {})
        \cup Shl(BitsOf(I16(exponent + 1023) % 1024), 52, 64)
        \cup (mantissa \cap LowMask(52))

\* ((exponent + 1023) as u64) & ((1 << 11) - 1): the cast of a negative i16
\* sign-extends, so the low 11 bits are those of the value modulo 2^11
from_parts(sign, exponent, mantissa) ==
    (IF sign THEN {63} ELSE {})
        \cup Shl(BitsOf(I16(exponent + 1023) % 2048), 52, 64)
        \cup (mantissa \cap LowMask(52))

is_zero(bits) == get_exponent(bits) = -1023 /\ get_mantissa(bits) = {}

is_nan(bits) == get_exponent(bits) = 1024 /\ get_mantissa(bits) # {}

is_infinity(bits) == get_exponent(bits) = 1024 /\ get_mantissa(bits) = {}

\* 0x7FF8000000000000
nan == 51..62

\* (sign as u64) << 63 | (0x7FF << 52)
infinity(sign) == (IF sign THEN {63} ELSE {}) \cup (52..62)

\* (sign as u64) << 63: a zero of the given sign
zero(sign) == IF sign THEN {63} ELSE {}

(***************************************************************************)
(* NaN selection.  Option<Float> is a sequence: <<>> is None, <<f>> is     *)
(* Some(f).                                                                *)
(***************************************************************************)
\* nan_logic without the precedence of a signaling second operand
nan_logic_first(self, other) ==
    IF is_nan(self) THEN <<self \cup {51}>>
    ELSE IF is_nan(other) THEN <<other \cup {51}>>
    ELSE <<>>

nan_logic(self, other) ==
    LET self_is_nan == is_nan(self)
        other_is_nan == is_nan(other)
        chosen_nan ==
            IF other_is_nan
               /\ Shr(get_mantissa(other), 51) = {}
               /\ ~(self_is_nan /\ Shr(get_mantissa(self), 51) = {})
            THEN other
            ELSE IF self_is_nan THEN self
            ELSE other
    IN  IF self_is_nan \/ other_is_nan THEN <<chosen_nan \cup {51}>> ELSE <<>>

(***************************************************************************)
(* get_full_mantissa: the mantissa with the implicit leading 1, and the    *)
(* amount it adds to the caller's exponent (1 for a subnormal).            *)
(***************************************************************************)
is_normal(self) == IF (Shr(self, 52) \cap LowMask(11)) # {} THEN 1 ELSE 0

\* get_full_mantissa leaving the exponent of a subnormal alone
exponent_adjust_none(self) == 0

exponent_adjust(self) == 1 - is_normal(self)

get_full_mantissa(self) ==
    get_mantissa(self) \cup (IF is_normal(self) = 1 THEN {52} ELSE {})

(***************************************************************************)
(* multiply                                                                *)
(***************************************************************************)
\* the normalisation aiming one bit too low
normalize_shift_amt_104(product) == leading_zeros(product) - (128 - 104)

\* the amount the product is shifted left to bring its top bit to bit 104
\* (a u32 in the code; only its low bits are used below, and those of a
\* wrapped u32 are the low bits of this difference)
normalize_shift_amt(product) == leading_zeros(product) - (128 - 105)

\* the closure shift_and_round; a shift count is taken modulo the register
\* width, as the wrapping shifts of a build without overflow checks do
shift_and_round(mantissa_full, shift) ==
    LET mantissa == Shr(mantissa_full, shift % 128) \cap LowMask(64)
        remainder == mantissa_full \cap LowMask(shift % 128)
        half_way == {(shift - 1) % 128}
    IN  IF Lt(half_way, remainder) \/ (remainder = half_way /\ 0 \in mantissa)
        THEN Inc(mantissa, 64)
        ELSE mantissa

\* the locals of multiply past its special cases, in the order the code
\* assigns them
mul_locals(self, other) ==
    LET sign == get_sign(self) # get_sign(other)
        exponent_sum == get_exponent(self) + get_exponent(other)
        exponent_self == I16(exponent_sum) + exponent_adjust(self)
        exponent_other == I16(exponent_self) + exponent_adjust(other)
        product == MulU64(get_full_mantissa(self), get_full_mantissa(other))
        bit105 == Shr(product, 105) # {}
        shift_amt == normalize_shift_amt(product)
        exponent_norm == IF bit105 THEN I16(exponent_other) + 1
                         ELSE I16(exponent_other) - I16(shift_amt)
        mantissa_full == IF bit105 THEN Shr(product, 1)
                         ELSE Shl(product, shift_amt % 128, 128)
        exponent == I16(exponent_norm)
        extra == I16(-1023 + 1) - exponent
        shift == IF exponent <= -1023 THEN 52 + I16(extra) ELSE 52
        exponent_final == IF exponent <= -1023 THEN -1023 ELSE exponent
    IN  [sign |-> sign,
         exponent_sum |-> exponent_sum,
         exponent_self |-> exponent_self,
         exponent_other |-> exponent_other,
         product |-> product,
         bit105 |-> bit105,
         shift_amt |-> shift_amt,
         exponent_norm |-> exponent_norm,
         mantissa_full |-> mantissa_full,
         exponent |-> exponent,
         extra |-> extra,
         shift |-> shift,
         exponent_final |-> exponent_final,
         mantissa |-> shift_and_round(mantissa_full, shift)]

multiply(self, other) ==
    LET n == nan_logic(self, other)
        l == mul_locals(self, other)
    IN  IF n # <<>> THEN n[1]
        ELSE IF is_infinity(self) \/ is_infinity(other)
        THEN IF is_zero(self) \/ is_zero(other) THEN nan ELSE infinity(l.sign)
        ELSE IF l.exponent >= 1024 THEN infinity(l.sign)
        ELSE IF l.exponent <= -1023 /\ l.exponent < -1075 THEN zero(l.sign)
        ELSE from_parts(l.sign, l.exponent_final, l.mantissa)

\* an arithmetic fault of the given name, when its condition holds
Fault(cond, name) == IF cond THEN {name} ELSE {}

\* The arithmetic faults on the path multiply takes: each is a panic in a
\* build with overflow checks and a wrapped value in one without.
mul_faults(self, other) ==
    LET l == mul_locals(self, other)
        special == nan_logic(self, other) # <<>>
                       \/ is_infinity(self) \/ is_infinity(other)
        subnormal == l.exponent < 1024 /\ l.exponent <= -1023
                         /\ ~(l.exponent < -1075)
        rounds == l.exponent < 1024 /\ ~(l.exponent < -1075)
    IN  IF special THEN {}
        ELSE Fault(~InI16(l.exponent_sum), "exponent add (line 138)")
          \cup Fault(~InI16(l.exponent_self) \/ ~InI16(l.exponent_other),
                     "exponent adjust (line 120)")
          \cup Fault(l.bit105 /\ ~InI16(l.exponent_norm),
                     "exponent increment (line 149)")
          \cup Fault(~l.bit105 /\ l.shift_amt < 0,
                     "leading_zeros subtract (line 154)")
          \cup Fault(~l.bit105 /\ l.shift_amt \notin 0..127,
                     "shift left (line 155)")
          \cup Fault(~l.bit105 /\ ~InI16(l.exponent_norm),
                     "exponent subtract (line 156)")
          \cup Fault(subnormal /\ (~InI16(l.extra) \/ I16(l.extra) < 0),
                     "shift add (line 186)")
          \cup Fault(rounds /\ l.shift \notin 1..127,
                     "rounding shift (lines 160-162)")
          \cup Fault(rounds /\ l.mantissa = {}
                         /\ LowMask(64) \subseteq Shr(l.mantissa_full, l.shift % 128),
                     "mantissa increment (line 166)")
          \cup Fault(rounds /\ ~InI16(l.exponent_final + 1023),
                     "bias add (line 53)")

(***************************************************************************)
(* add: special cases, alignment of the smaller operand, and the stub      *)
(* return.                                                                 *)
(***************************************************************************)
RECURSIVE AddCols(_, _, _, _)
\* limbs k.. of v + w, with carry in
AddCols(v, w, k, carry) ==
    IF k > 4 THEN {}
    ELSE LET t == Limb(v, k) + Limb(w, k) + carry
         IN  {14 * k + i : i \in BitsOf(t % 16384)}
                 \cup AddCols(v, w, k + 1, t \div 16384)

\* v + w of two u64 words, unwrapped: a bit at 64 or above is the overflow
AddU64(v, w) == AddCols(v, w, 0, 0)

\* the locals of add past its special cases
add_locals(self, other) ==
    LET swap == get_exponent(self) > get_exponent(other)
        fa == IF swap THEN self ELSE other
        fb == IF swap THEN other ELSE self
        exp_a == get_exponent(fa) + exponent_adjust(fa)
        exp_b == get_exponent(fb) + exponent_adjust(fb)
        difference == I16(exp_a) - I16(exp_b)
        \* as u32: a negative difference would become 2^32 + difference
        exp_diff == I16(difference)
        mantissa_a == get_full_mantissa(fa)
        mantissa_b == get_full_mantissa(fb)
        \* (1 << exp_diff) - 1, the shift count wrapping at the u64 width
        shifted_out == mantissa_b \cap LowMask(exp_diff % 64)
        mantissa_b_aligned ==
            IF exp_diff >= 64 \/ exp_diff < 0 THEN {} ELSE Shr(mantissa_b, exp_diff)
    IN  [sign |-> get_sign(fa),
         exp_a |-> exp_a,
         exp_b |-> exp_b,
         difference |-> difference,
         exp_diff |-> exp_diff,
         shifted_out |-> shifted_out,
         mantissa_b |-> mantissa_b_aligned,
         mantissa |-> AddU64(mantissa_a, mantissa_b_aligned)]

\* whether add returns from one of its special cases (lines 194-214)
add_special(self, other) ==
    \/ nan_logic(self, other) # <<>>
    \/ is_zero(self) \/ is_zero(other)
    \/ is_infinity(self) \/ is_infinity(other)

add(self, other) ==
    LET n == nan_logic(self, other)
    IN  IF n # <<>> THEN n[1]
        ELSE IF is_zero(self) THEN other
        ELSE IF is_zero(other) THEN self
        ELSE IF is_infinity(self)
        THEN IF is_infinity(other) /\ get_sign(self) # get_sign(other)
             THEN nan ELSE self
        ELSE IF is_infinity(other) THEN other
        ELSE nan

\* The arithmetic faults on the path add takes.
add_faults(self, other) ==
    LET l == add_locals(self, other)
    IN  IF add_special(self, other) THEN {}
        ELSE Fault(~InI16(l.exp_a) \/ ~InI16(l.exp_b), "exponent adjust (line 120)")
          \cup Fault(~InI16(l.difference), "exponent subtract (line 230)")
          \cup Fault(l.exp_diff >= 64 \/ l.exp_diff < 0, "shift left (line 234)")
          \cup Fault(l.mantissa \ LowMask(64) # {}, "mantissa add (line 242)")

(***************************************************************************)
(* Operands.  Mantissas are sparse (at most MaxOnes one bits among the     *)
(* lowest and the highest position), dense (the complement of a sparse     *)
(* one), alternating, or those of mult_tie_test; exponent fields are the   *)
(* ones where the code changes path.                                       *)
(***************************************************************************)
MaxOnes == 1

MantPositions == {0, 51}

SparseMantissas == {m \in SUBSET MantPositions : Cardinality(m) <= MaxOnes}

\* 0x5555555555555: with 1.5 the product is a tie below a power of two
Alternating == {i \in 0..51 : i % 2 = 0}

\* the mantissas of mult_tie_test: 2^26 and 2^26 + 2^25
TieMantissas == {{26}, {25, 26}}

Mantissas ==
    SparseMantissas \cup {LowMask(52) \ m : m \in SparseMantissas}
        \cup {Alternating} \cup TieMantissas

\* biased exponents: zero and subnormals, least normal, 2^-52, 1/2, 1, 2,
\* 2^52, 2^105, greatest normal, infinity and NaN
ExpAnchors == {0, 1, 970, 971, 1022, 1023, 1024, 1075, 1128, 2046, 2047}

ExpFields == ExpAnchors

Pattern(sign, field, mantissa) ==
    (IF sign THEN {63} ELSE {}) \cup {52 + i : i \in BitsOf(field)} \cup mantissa

Operands ==
    {Pattern(s, f, m) : s \in BOOLEAN, f \in ExpFields, m \in Mantissas}

NoParts == [sign |-> FALSE, exponent |-> 0, mantissa |-> {}]

(***************************************************************************)
(* The harness: mult_check_print(a, b) calls a.multiply(&b).               *)
(***************************************************************************)
InitMul ==
    /\ a \in Operands
    /\ b \in Operands
    /\ parts = NoParts
    /\ pc = "call"
    /\ result = <<>>
    /\ panicked = FALSE

\* The call returns the product, or panics where an arithmetic fault meets a
\* build with overflow checks; which build runs is not the program's choice.
Multiply ==
    /\ pc = "call"
    /\ pc' = "multiply"
    /\ \E p \in {FALSE, mul_faults(a, b) # {}} :
           /\ panicked' = p
           /\ result' = IF p THEN <<>> ELSE <<multiply(a, b)>>
    /\ UNCHANGED <<a, b, parts>>

NextMul == Multiply

SpecMul == InitMul /\ [][NextMul]_vars

Add ==
    /\ pc = "call"
    /\ pc' = "add"
    /\ \E p \in {FALSE, add_faults(a, b) # {}} :
           /\ panicked' = p
           /\ result' = IF p THEN <<>> ELSE <<add(a, b)>>
    /\ UNCHANGED <<a, b, parts>>

NextAdd == Add

SpecAdd == InitMul /\ [][NextAdd]_vars

(***************************************************************************)
(* NaN operands of either kind with the other classes.                     *)
(***************************************************************************)
\* 1.0
One == 52..61

NanOperands ==
    {Pattern(s, 2047, m) : s \in BOOLEAN, m \in Mantissas}
        \cup {Pattern(s, 0, m) : s \in BOOLEAN, m \in {{}, {0}}}
        \cup {One}

InitNan ==
    /\ a \in NanOperands
    /\ b \in NanOperands
    /\ parts = NoParts
    /\ pc = "call"
    /\ result = <<>>
    /\ panicked = FALSE

NanLogic ==
    /\ pc = "call"
    /\ pc' = "nan_logic"
    /\ result' = nan_logic(a, b)
    /\ UNCHANGED <<a, b, parts, panicked>>

NextNan == NanLogic \/ Multiply \/ Add

SpecNan == InitNan /\ [][NextNan]_vars

(***************************************************************************)
(* x * 1.0 and 1.0 * x, over every 16th exponent field and the fields of   *)
(* the operand set.                                                        *)
(***************************************************************************)
IdentityFields == ExpFields \cup {f \in 0..2047 : f % 16 = 15}

IdentityOperands ==
    {Pattern(s, f, m) : s \in BOOLEAN, f \in IdentityFields, m \in Mantissas}

InitOne ==
    /\ \E x \in IdentityOperands : (a = x /\ b = One) \/ (a = One /\ b = x)
    /\ parts = NoParts
    /\ pc = "call"
    /\ result = <<>>
    /\ panicked = FALSE

SpecOne == InitOne /\ [][NextMul]_vars

(***************************************************************************)
(* from_parts and the getters, over every exponent.                        *)
(***************************************************************************)
InitParts ==
    /\ parts \in [sign : BOOLEAN, exponent : -1023..1024, mantissa : Mantissas]
    /\ a = Pattern(parts.sign, parts.exponent + 1023, parts.mantissa)
    /\ b = {}
    /\ pc = "call"
    /\ result = <<>>
    /\ panicked = FALSE

FromParts ==
    /\ pc = "call"
    /\ pc' = "from_parts"
    /\ \E p \in {FALSE, ~InI16(parts.exponent + 1023)} :
           /\ panicked' = p
           /\ result' = IF p THEN <<>>
                        ELSE <<from_parts(parts.sign, parts.exponent, parts.mantissa)>>
    /\ UNCHANGED <<a, b, parts>>

\* print_parts reads the three fields of a pattern; composing them again
Recompose ==
    /\ pc = "call"
    /\ pc' = "recompose"
    /\ result' = <<from_parts(get_sign(a), get_exponent(a), get_mantissa(a))>>
    /\ UNCHANGED <<a, b, parts, panicked>>

NextParts == FromParts \/ Recompose

SpecParts == InitParts /\ [][NextParts]_vars

(***************************************************************************)
(* IEEE 754 binary64 multiplication, the reference the stress test takes   *)
(* from the hardware: the exact product of the two values, rounded once    *)
(* to nearest, ties to even.  A finite value is significand * 2^lsb_exp.   *)
(***************************************************************************)
IsNaN(x) == (52..62) \subseteq x /\ x \cap (0..51) # {}

IsInf(x) == x \ {63} = 52..62

IsZero(x) == x \ {63} = {}

IsFinite(x) == ~((52..62) \subseteq x)

IsSignaling(x) == IsNaN(x) /\ 51 \notin x

ProductSign(x, y) == (63 \in x) # (63 \in y)

ieee_significand(x) ==
    (x \cap (0..51)) \cup (IF x \cap (52..62) = {} THEN {} ELSE {52})

ieee_lsb_exp(x) ==
    (IF x \cap (52..62) = {} THEN 1 ELSE Val({i - 52 : i \in x \cap (52..62)})) - 1075

\* round to nearest, ties to even, of w / 2^s
RoundNearestEven(w, s) ==
    LET kept == Shr(w, s)
        rest == w \cap (0..(s - 1))
    IN  IF Lt({s - 1}, rest) \/ (rest = {s - 1} /\ 0 \in kept)
        THEN Inc(kept, 128) ELSE kept

\* the pattern of kept * 2^q, where kept < 2^54 is already rounded to the
\* precision of its range
ieee_encode(sign, kept, q) ==
    IF kept = {} THEN zero(sign)
    ELSE LET e == Max(kept) + q
         IN  IF e > 1023 THEN infinity(sign)
             ELSE IF e < -1022 THEN zero(sign) \cup kept
             ELSE zero(sign) \cup {52 + i : i \in BitsOf(e + 1023)}
                      \cup (Shr(kept, Max(kept) - 52) \ {52})

\* the exact product p * 2^q0 of two finite values with p # 0, the quantum
\* 2^q of the result (53 significant bits, but no finer than 2^-1074) and
\* the number of low bits of p that rounding drops
ieee_exact(x, y) ==
    LET p == MulU64(ieee_significand(x), ieee_significand(y))
        q0 == ieee_lsb_exp(x) + ieee_lsb_exp(y)
        q == IF Max(p) + q0 - 52 < -1074 THEN -1074 ELSE Max(p) + q0 - 52
    IN  [p |-> p, q |-> q, drop |-> q - q0]

\* the product of two non-NaN values other than infinity * 0
ieee_product(x, y) ==
    LET sign == ProductSign(x, y)
        r == ieee_exact(x, y)
    IN  IF IsInf(x) \/ IsInf(y) THEN infinity(sign)
        ELSE IF IsZero(x) \/ IsZero(y) THEN zero(sign)
        ELSE ieee_encode(sign,
                         IF r.drop <= 0 THEN Shl(r.p, 0 - r.drop, 128)
                         ELSE RoundNearestEven(r.p, r.drop),
                         r.q)

\* The NaNs a native multiplication may return; which one is the
\* hardware's choice.  The default NaN of an invalid operation has a zero
\* payload and either sign (0x7FF8000000000000 on the CPU the comment on
\* line 94 names, 0xFFF8000000000000 on x86-64); a NaN operand is returned
\* quieted, whichever of two the hardware prefers.
native_nans(x, y) ==
    {nan, nan \cup {63}}
        \cup {z \cup {51} : z \in {w \in {x, y} : IsNaN(w)}}

\* a.to_f64() * b.to_f64(): the patterns the hardware may return
native_multiply(x, y) ==
    IF IsNaN(x) \/ IsNaN(y) THEN native_nans(x, y)
    ELSE IF (IsInf(x) /\ IsZero(y)) \/ (IsZero(x) /\ IsInf(y))
    THEN {nan, nan \cup {63}}
    ELSE {ieee_product(x, y)}

(***************************************************************************)
(* Properties.                                                             *)
(***************************************************************************)
\* the call to multiply took the path that rounds and composes (line 190)
Rounds(l) == l.exponent < 1024 /\ l.exponent >= -1075

\* C1: for every pair of non-NaN patterns, multiply returns exactly the
\* pattern of the IEEE 754 binary64 product (the exact product rounded once
\* to nearest, ties to even; overflow to infinity, underflow to a signed
\* zero or subnormal, infinity * 0 the quiet NaN 0x7FF8000000000000, one of
\* the NaNs a native multiplication returns there).
C1_BitExact ==
    (pc = "multiply" /\ ~IsNaN(a) /\ ~IsNaN(b))
        => (Len(result) = 1 /\ result[1] \in native_multiply(a, b)
            /\ (IsNaN(result[1]) => result[1] = nan))

\* C2: multiplying a finite value by a zero, in either order, returns the
\* zero whose sign is the exclusive or of the operands' signs.
C2_ZeroAbsorption ==
    (pc = "multiply" /\ IsFinite(a) /\ IsFinite(b) /\ (IsZero(a) \/ IsZero(b)))
        => result = <<zero(ProductSign(a, b))>>

\* the operand the NaN policy selects: the second if it is a signaling NaN
\* and the first is not; else the first if it is a NaN; else the second
PolicyChoice(x, y) ==
    IF IsSignaling(y) /\ ~IsSignaling(x) THEN y
    ELSE IF IsNaN(x) THEN x ELSE y

\* C3: nan_logic returns nothing iff neither operand is a NaN; otherwise it
\* returns the operand the policy selects with bit 51 set and no other bit
\* changed, so a signaling NaN wins over a quiet one in either order and two
\* NaNs of one kind yield the first; multiply and add return that value, and
\* every NaN multiply returns is quiet.
C3_NanPolicy ==
    /\ pc = "nan_logic" =>
          /\ (result = <<>>) <=> (~IsNaN(a) /\ ~IsNaN(b))
          /\ result # <<>> => result = <<PolicyChoice(a, b) \cup {51}>>
          /\ (IsSignaling(a) /\ IsNaN(b) /\ ~IsSignaling(b)) => result = <<a \cup {51}>>
          /\ (IsSignaling(b) /\ IsNaN(a) /\ ~IsSignaling(a)) => result = <<b \cup {51}>>
          /\ (IsNaN(a) /\ IsNaN(b) /\ (IsSignaling(a) <=> IsSignaling(b)))
                => result = <<a \cup {51}>>
    /\ (pc \in {"multiply", "add"} /\ (IsNaN(a) \/ IsNaN(b)))
          => result = <<PolicyChoice(a, b) \cup {51}>>
    /\ (pc = "multiply" /\ result # <<>> /\ IsNaN(result[1])) => 51 \in result[1]

\* C3 witness: a quiet first operand and a signaling second one; the second,
\* quieted, is returned.
C3_Witness ==
    /\ pc = "nan_logic"
    /\ IsNaN(a) /\ ~IsSignaling(a) /\ IsSignaling(b)
    /\ result = <<b \cup {51}>>
    /\ result # <<a>>

\* C4: multiply returns a value for every pair of patterns with no
\* arithmetic fault: the working exponent stays in the i16 range, the
\* normalisation shift leading_zeros - 23 is in 0..127, the rounding shift
\* is in 52..105, the value cast to unsigned on line 186 and the biased
\* exponent handed to from_parts are not negative.
C4_MultiplyTotal ==
    LET l == mul_locals(a, b)
        finite == IsFinite(a) /\ IsFinite(b)
    IN  pc = "multiply" =>
        /\ ~panicked /\ Len(result) = 1
        /\ mul_faults(a, b) = {}
        /\ finite =>
              /\ InI16(l.exponent_sum) /\ InI16(l.exponent_self)
              /\ InI16(l.exponent_other) /\ InI16(l.exponent_norm)
              /\ ~l.bit105 => (l.shift_amt >= 0 /\ l.shift_amt < 128)
              /\ Rounds(l) => (l.shift >= 52 /\ l.shift <= 105)
              /\ (Rounds(l) /\ l.exponent <= -1023) => l.extra >= 0
              /\ Rounds(l) => l.exponent_final + 1023 >= 0

\* C4 witness: a product of two subnormals' neighbours that is rounded with
\* the largest shift, 105, after a left normalisation.
C4_Witness ==
    LET l == mul_locals(a, b)
    IN  /\ pc = "multiply" /\ ~panicked
        /\ IsFinite(a) /\ IsFinite(b)
        /\ ~l.bit105 /\ l.shift_amt > 0
        /\ Rounds(l) /\ l.shift = 105

\* C5: when the exact product of two finite nonzero operands lies exactly
\* halfway between two adjacent representable values, multiply returns the
\* one whose last significand bit is 0, also when that is the next power
\* of two.
C5_TiesToEven ==
    LET r == ieee_exact(a, b)
        kept == Shr(r.p, r.drop)
    IN  (/\ pc = "multiply"
         /\ IsFinite(a) /\ ~IsZero(a) /\ IsFinite(b) /\ ~IsZero(b)
         /\ r.drop > 0 /\ r.p \cap (0..(r.drop - 1)) = {r.drop - 1})
        => result = <<ieee_encode(ProductSign(a, b),
                                  IF 0 \in kept THEN Inc(kept, 128) ELSE kept,
                                  r.q)>>

\* C6: from_parts followed by the getters returns the sign, the exponent in
\* -1023..1024 and the mantissa below 2^52 it was given, and the getters
\* followed by from_parts return the pattern they read.
C6_RoundTrip ==
    /\ pc = "from_parts" =>
          /\ ~panicked /\ Len(result) = 1
          /\ get_sign(result[1]) = parts.sign
          /\ get_exponent(result[1]) = parts.exponent
          /\ get_mantissa(result[1]) = parts.mantissa
    /\ pc = "recompose" => result = <<a>>

\* C6 witness: a negative value with the largest exponent and a dense
\* mantissa has been composed.
C6_Witness ==
    /\ pc = "from_parts"
    /\ parts.sign /\ parts.exponent = 1024 /\ parts.mantissa = 0..51
    /\ result = <<0..63>>

\* C7: for every non-NaN x, multiply(x, 1.0) and multiply(1.0, x) return
\* exactly x: zeros, subnormals, normals and infinities of either sign.
C7_Identity ==
    pc = "multiply" =>
        /\ (b = One /\ ~IsNaN(a)) => result = <<a>>
        /\ (a = One /\ ~IsNaN(b)) => result = <<b>>

\* C7 witness: the smallest positive subnormal times 1.0 (mult_benchmark).
C7_Witness ==
    /\ pc = "multiply"
    /\ a = {0} /\ b = One
    /\ result = <<{0}>>

\* C8: for finite nonzero operands add completes with no arithmetic fault
\* (no shift by 64 or more, no negative exponent difference, no overflow of
\* the mantissa sum) and returns the quiet NaN 0x7FF8000000000000.
C8_AddStubTotal ==
    (/\ pc = "add"
     /\ IsFinite(a) /\ ~IsZero(a) /\ IsFinite(b) /\ ~IsZero(b))
    => (~panicked /\ add_faults(a, b) = {} /\ result = <<nan>>)

\* C9: when the exact mantissa product has bit 105 set, rounding the
\* product shifted right by one with shift s keeps the same significand as
\* rounding the exact product to nearest even with shift s + 1.
C9_RightShiftKeepsRounding ==
    LET l == mul_locals(a, b)
    IN  (/\ pc = "multiply"
         /\ IsFinite(a) /\ IsFinite(b)
         /\ l.bit105 /\ Rounds(l))
        => l.mantissa = RoundNearestEven(l.product, l.shift + 1)

\* C10: a rounding carry reaches the exponent: a kept significand rounded
\* up to 2^53 at exponent e in -1022..1022 gives exponent e + 1 and mantissa
\* 0, and one rounded up to 2^52 in the subnormal range gives the smallest
\* normal value.
C10_CarryIntoExponent ==
    LET l == mul_locals(a, b)
    IN  (pc = "multiply" /\ IsFinite(a) /\ IsFinite(b) /\ Rounds(l)) =>
          /\ (l.exponent_final >= -1022 /\ l.exponent_final <= 1022
                  /\ l.mantissa = {53})
                => result = <<Pattern(l.sign, l.exponent_final + 1024, {})>>
          /\ (l.exponent_final = -1023 /\ l.mantissa = {52})
                => result = <<Pattern(l.sign, 1, {})>>

====
